---- MODULE Spec2Model ----
(***************************************************************************)
(* Model of Machine<S, T> (src/machine.h): the hierarchical state machine  *)
(* with its builder (MachineState), trigger resolution (getActionFor) and  *)
(* the exit/enter traversal run by fire.                                   *)
(*                                                                         *)
(* assert(...) is modelled as compiled in (main.cpp and the examples rely  *)
(* on it): a failed assert ends the program (alive = FALSE).  Unbounded    *)
(* recursion over a cyclic parent relation is the outcome "diverge".       *)
(***************************************************************************)
EXTENDS Integers, Sequences, FiniteSets, TLC

States == {"A", "B", "C", "D"}
Triggers == {"X", "Y"}

\* an empty std::optional / a null pointer / an empty std::function
None == "none"

\* Payload of a fire call: None for fire(trigger), the int i (written as a
\* string) for fire<int>(trigger, i)
Payloads == {None, "0", "1"}

\* The template argument pack Args... of an action or of a fire call
NoArgs == "<>"
IntArgs == "<int>"
Signatures == {NoArgs, IntArgs}

SigOf(payload) == IF payload = None THEN NoArgs ELSE IntArgs

VARIABLES
    fState,              \* Machine::fState, the current state
    fStates,             \* keys of Machine::fStates: the states with a MachineState
    fParentState,        \* MachineState::fParentState, per state
    fInitialState,       \* MachineState::fInitialState, per state
    fTriggers,           \* MachineState::fTriggers, per state and trigger, in insertion order
    fOnEntry,            \* states whose MachineState::fOnEntry is set
    fOnExit,             \* states whose MachineState::fOnExit is set
    fOnEntryWithParameters, \* keys (trigger, signature) of MachineState::fOnEntryWithParameters, per state
    fOnUnhandledTrigger, \* Machine::fOnUnhandledTrigger is set
    fOnTransitioned,     \* Machine::fOnTransitioned is set
    alive,               \* FALSE once an assert failed or a call never returns
    sequence,            \* the callbacks invoked by the last fire, in order
    call                 \* the last fire call: its arguments and how it ended

vars == <<fState, fStates, fParentState, fInitialState, fTriggers, fOnEntry,
          fOnExit, fOnEntryWithParameters, fOnUnhandledTrigger, fOnTransitioned,
          alive, sequence, call>>

config == <<fStates, fParentState, fInitialState, fTriggers, fOnEntry, fOnExit,
            fOnEntryWithParameters, fOnUnhandledTrigger, fOnTransitioned>>

NoCall == [outcome |-> "nocall"]

\* Longest walk over distinct states; a longer one has revisited a state and,
\* the configuration being fixed during a call, never ends.
MaxWalk == Cardinality(States)

----------------------------------------------------------------------------
(* Actions of the trigger table *)

\* TriggerAction<Args...>(state): permit, permitReentry
StaticAction(sig, dest, guard) ==
    [kind |-> "static", sig |-> sig, dest |-> dest, guard |-> guard, sel |-> None]

\* TriggerAction<Args...>(): ignore
IgnoreAction(sig, guard) ==
    [kind |-> "ignore", sig |-> sig, dest |-> None, guard |-> guard, sel |-> None]

\* InternalTriggerAction<Args...>(action), the action a callback that does
\* not call the machine (body None)
InternalAction(sig, guard) ==
    [kind |-> "internal", sig |-> sig, dest |-> None, guard |-> guard, sel |-> None,
     body |-> None]

\* InternalTriggerAction<Args...>(action), the action a callback that captures
\* the machine and calls its fire(trigger)
InternalActionFiring(sig, guard, trigger) ==
    [kind |-> "internal", sig |-> sig, dest |-> None, guard |-> guard, sel |-> None,
     body |-> trigger]

\* DynamicTriggerAction<Args...>(selector)
DynamicAction(sig, sel, guard) ==
    [kind |-> "dynamic", sig |-> sig, dest |-> None, guard |-> guard, sel |-> sel]

\* A selector of permitDynamic that returns the same state for every payload,
\* like the one of testDynamicTrigger
ConstSelector(d) == [p \in Payloads |-> d]

\* The selector of testDynamicTriggerParameters: i > 0 ? "B" : "C"
ByPayload == [p \in Payloads |-> IF p = "1" THEN "B" ELSE "C"]

\* Action::isValid / Conditional<A>::isValid: the predicate's result
isValid(a) == a.guard # "false"

\* TriggerAction::hasDestination / DynamicTriggerAction::hasDestination
hasDestination(a) == a.kind = "dynamic" \/ a.dest # None

\* Mutant of getDestination: the selector is called without the payload
getDestinationNoPayload(a, payload) ==
    IF a.kind = "dynamic" THEN a.sel[None] ELSE a.dest

\* TriggerAction::getDestination / DynamicTriggerAction::getDestination
getDestination(a, payload) ==
    IF a.kind = "dynamic" THEN a.sel[payload] ELSE a.dest

----------------------------------------------------------------------------
(* Callbacks, as the tests of main.cpp record them in their `sequence` *)

\* k: which callback; s: the state it belongs to (the source, for the
\* observers); d: the destination (transitioned only); cur: Machine::fState
\* when it is invoked
Event(k, s, d, cur) == [k |-> k, s |-> s, d |-> d, cur |-> cur]

\* Result of a step that may fail: st is "ok", "abort" or "diverge"
Acc(log, cur, st) == [log |-> log, cur |-> cur, st |-> st]

Failed(st) == st \in {"abort", "diverge"}

----------------------------------------------------------------------------
(* MachineState *)

\* MachineState::isDescendantOf: "true", "false", "abort" when a parent has no
\* MachineState (the assert of getMachineState), "diverge" on a cycle
RECURSIVE isDescendantOfWalk(_, _, _)
isDescendantOfWalk(s, state, n) ==
    IF s = state THEN "true"
    ELSE IF fParentState[s] = None THEN "false"
    ELSE IF fParentState[s] \notin fStates THEN "abort"
    ELSE IF n = 0 THEN "diverge"
    ELSE isDescendantOfWalk(fParentState[s], state, n - 1)

isDescendantOf(s, state) == isDescendantOfWalk(s, state, MaxWalk)

\* Mutant of ValidActions: the valid entries, the latest inserted first
ValidActionsLatestFirst(s, trigger) ==
    LET valid == SelectSeq(fTriggers[s][trigger], LAMBDA a : isValid(a))
    IN  [i \in 1..Len(valid) |-> valid[Len(valid) + 1 - i]]

\* Mutant of ValidActions: an ignore entry is not an entry
ValidActionsNoIgnore(s, trigger) ==
    SelectSeq(fTriggers[s][trigger], LAMBDA a : isValid(a) /\ a.kind # "ignore")

\* The entries of a trigger's equal_range whose isValid() is true
ValidActions(s, trigger) ==
    SelectSeq(fTriggers[s][trigger], LAMBDA a : isValid(a))

\* Mutant of getActionForWalk: the state's own entries only, no parent
getActionForWalkLocal(s, trigger, sig, n) ==
    LET valid == ValidActions(s, trigger)
    IN  IF valid # << >> /\ Head(valid).sig = sig
        THEN [found |-> "found", owner |-> s, action |-> Head(valid)]
        ELSE [found |-> "null", owner |-> None, action |-> None]

\* MachineState::getActionFor<Args...>: the first valid entry of the nearest
\* state that has one, dynamic_cast to TriggerAction<Args...> ("null" when the
\* cast fails or no state of the chain has a valid entry)
RECURSIVE getActionForWalk(_, _, _, _)
getActionForWalk(s, trigger, sig, n) ==
    LET valid == ValidActions(s, trigger)
    IN  IF valid # << >>
        THEN IF Head(valid).sig = sig
             THEN [found |-> "found", owner |-> s, action |-> Head(valid)]
             ELSE [found |-> "null", owner |-> s, action |-> None]
        ELSE IF fParentState[s] = None
        THEN [found |-> "null", owner |-> None, action |-> None]
        ELSE IF fParentState[s] \notin fStates
        THEN [found |-> "abort", owner |-> None, action |-> None]
        ELSE IF n = 0
        THEN [found |-> "diverge", owner |-> None, action |-> None]
        ELSE getActionForWalk(fParentState[s], trigger, sig, n - 1)

getActionFor(s, trigger, sig) == getActionForWalk(s, trigger, sig, MaxWalk)

\* MachineState::callOnExit and the `if (src->fOnExit)` of Machine::exit
\* (nothing inserts into fOnExitWithParameters, so with a payload too the
\* callback is fOnExit)
callOnExit(s, log, cur) ==
    IF s \in fOnExit THEN Append(log, Event("exit", s, None, cur)) ELSE log

\* Mutant of callOnEntry: the hook of onEntryFrom is called on top of fOnEntry
callOnEntryBoth(s, trigger, payload, log, cur) ==
    LET plain == IF s \in fOnEntry
                 THEN Append(log, Event("entry", s, None, cur))
                 ELSE log
    IN  IF payload # None /\ <<trigger, SigOf(payload)>> \in fOnEntryWithParameters[s]
        THEN Append(plain, Event("entryFrom", s, payload, cur))
        ELSE plain

\* The `if (dst->fOnEntry)` of Machine::enter (a fire without payload) and
\* MachineState::callOnEntry<Args...> (a fire with payload): the callback
\* registered by onEntryFrom for (trigger, Args...) if there is one, fOnEntry
\* otherwise
callOnEntry(s, trigger, payload, log, cur) ==
    IF payload # None /\ <<trigger, SigOf(payload)>> \in fOnEntryWithParameters[s]
    THEN Append(log, Event("entryFrom", s, payload, cur))
    ELSE IF s \in fOnEntry THEN Append(log, Event("entry", s, None, cur))
    ELSE log

----------------------------------------------------------------------------
(* Machine::exit and Machine::enter *)

\* Mutant of exitWalk: exits src and stops, without climbing to the parent
exitWalkOneLevel(src, dst, reentry, log, cur, n) ==
    LET inside == IF reentry THEN "false" ELSE isDescendantOf(dst, src)
    IN  IF Failed(inside) THEN [top |-> src, log |-> log, st |-> inside]
        ELSE IF inside = "true" THEN [top |-> src, log |-> log, st |-> "ok"]
        ELSE [top |-> IF fParentState[src] = None THEN src ELSE fParentState[src],
              log |-> callOnExit(src, log, cur), st |-> "ok"]

\* Machine::exit(src, dst, reentry): the exit callbacks appended to log, and
\* the highest state reached (top)
RECURSIVE exitWalk(_, _, _, _, _, _)
exitWalk(src, dst, reentry, log, cur, n) ==
    LET inside == IF reentry THEN "false" ELSE isDescendantOf(dst, src)
        exited == callOnExit(src, log, cur)
        parent == fParentState[src]
        under  == IF fParentState[dst] # None
                  THEN isDescendantOf(dst, parent)
                  ELSE "false"
    IN  IF Failed(inside) THEN [top |-> src, log |-> log, st |-> inside]
        ELSE IF inside = "true" THEN [top |-> src, log |-> log, st |-> "ok"]
        ELSE IF parent = None THEN [top |-> src, log |-> exited, st |-> "ok"]
        ELSE IF Failed(under) THEN [top |-> src, log |-> exited, st |-> under]
        ELSE IF parent \notin fStates
        THEN [top |-> src, log |-> exited, st |-> "abort"]
        ELSE IF under = "true" THEN [top |-> parent, log |-> exited, st |-> "ok"]
        ELSE IF n = 0 THEN [top |-> src, log |-> exited, st |-> "diverge"]
        ELSE exitWalk(parent, dst, FALSE, exited, cur, n - 1)

\* Mutant of exit: a reentry handled as any other transition
exitNoReentry(src, dst, reentry, log, cur) ==
    exitWalk(src, dst, FALSE, log, cur, MaxWalk)

exit(src, dst, reentry, log, cur) ==
    exitWalk(src, dst, reentry, log, cur, MaxWalk)

\* Mutant of enterWalk: enters dst without entering its ancestors first
RECURSIVE enterWalkNoAncestors(_, _, _, _, _, _, _)
enterWalkNoAncestors(src, dst, trigger, initialTransition, payload, acc, n) ==
    LET entered == Acc(callOnEntry(dst, trigger, payload, acc.log, acc.cur),
                       acc.cur, "ok")
        initial == fInitialState[dst]
    IN  IF initial = None THEN entered
        ELSE IF initial \notin fStates \/ fParentState[initial] # dst
        THEN Acc(entered.log, initial, "abort")
        ELSE IF n = 0 THEN Acc(entered.log, initial, "diverge")
        ELSE enterWalkNoAncestors(dst, initial, trigger, TRUE, payload,
                                  Acc(entered.log, initial, "ok"), n - 1)

\* Machine::enter(src, dst, trigger, initialTransition, args...): the entry
\* callbacks appended to acc.log, and the current state (acc.cur) set by the
\* initial transitions
RECURSIVE enterWalk(_, _, _, _, _, _, _)
enterWalk(src, dst, trigger, initialTransition, payload, acc, n) ==
    LET parent == fParentState[dst]
        above  == IF initialTransition \/ parent = None
                  THEN "true"
                  ELSE isDescendantOf(src, parent)
        upper  == IF above = "true" THEN acc
                  ELSE IF Failed(above) THEN Acc(acc.log, acc.cur, above)
                  ELSE IF parent \notin fStates THEN Acc(acc.log, acc.cur, "abort")
                  ELSE IF n = 0 THEN Acc(acc.log, acc.cur, "diverge")
                  ELSE enterWalk(src, parent, trigger, FALSE, payload, acc, n - 1)
        entered == Acc(callOnEntry(dst, trigger, payload, upper.log, upper.cur),
                       upper.cur, "ok")
        initial == fInitialState[dst]
    IN  IF Failed(upper.st) THEN upper
        ELSE IF initial = None THEN entered
        ELSE IF initial \notin fStates \/ fParentState[initial] # dst
        THEN Acc(entered.log, initial, "abort")
        ELSE IF n = 0 THEN Acc(entered.log, initial, "diverge")
        ELSE enterWalk(dst, initial, trigger, TRUE, payload,
                       Acc(entered.log, initial, "ok"), n - 1)

enter(src, dst, trigger, initialTransition, payload, acc) ==
    enterWalk(src, dst, trigger, initialTransition, payload, acc, 2 * MaxWalk)

----------------------------------------------------------------------------
(* Machine::fire *)

\* Mutant of transitioned: the observer runs before fState is assigned
transitionedEarly(from, to, log, cur) ==
    IF fOnTransitioned THEN Append(log, Event("transitioned", from, to, from)) ELSE log

\* Machine::transitioned
transitioned(from, to, log, cur) ==
    IF fOnTransitioned THEN Append(log, Event("transitioned", from, to, cur)) ELSE log

\* Mutant of unhandled: the observer is never called
unhandledSilent(state, log) == log

\* The `if (fOnUnhandledTrigger)` of Machine::fire
unhandled(state, log) ==
    IF fOnUnhandledTrigger THEN Append(log, Event("unhandled", state, None, state)) ELSE log

\* Mutant of callAction: the action of an internal transition is not called
callActionNever(a, owner, log, cur) == log

\* TriggerAction::call / InternalTriggerAction::call
callAction(a, owner, log, cur) ==
    IF a.kind = "internal" THEN Append(log, Event("action", owner, None, cur)) ELSE log

\* How a fire call went: what it was called with, what resolution found,
\* the destination and the highest state exited, and how it ended
\* ("returned", "abort", "diverge")
FireCall(trigger, payload, look, dest, top, end) ==
    [outcome |-> IF look.found # "found" THEN "unhandled"
                 ELSE IF dest = None THEN "nodest"
                 ELSE "transition",
     source |-> fState, trigger |-> trigger, payload |-> payload,
     found |-> look.found, owner |-> look.owner, action |-> look.action,
     dest |-> dest, top |-> top, end |-> end]

FireResult(cur, log, c) == [cur |-> cur, log |-> log, call |-> c]

NotLooked == [found |-> "abort", owner |-> None, action |-> None]

\* The transition of Machine::fire, from `S state = action->getDestination()` on
fireTransition(trigger, payload, look) ==
    LET state == getDestination(look.action, payload)
        ex    == exit(fState, state, fState = state, << >>, fState)
        seen  == transitioned(fState, state, ex.log, state)
        en    == enter(ex.top, state, trigger, FALSE, payload,
                       Acc(seen, state, "ok"))
    IN  IF state \notin fStates
        THEN FireResult(fState, << >>,
                        FireCall(trigger, payload, look, state, None, "abort"))
        ELSE IF Failed(ex.st)
        THEN FireResult(fState, ex.log,
                        FireCall(trigger, payload, look, state, None, ex.st))
        ELSE FireResult(en.cur, en.log,
                        FireCall(trigger, payload, look, state, ex.top,
                                 IF Failed(en.st) THEN en.st ELSE "returned"))

\* The action of an internal transition calls fire
Firing(a) == a.kind = "internal" /\ a.body # None

\* Nothing stands between fire and a fire called by the action of an internal
\* transition, and the inner call finds the machine as the outer one found
\* it: a chain of such calls longer than the triggers are many repeats a
\* trigger and never ends.
MaxNest == Cardinality(Triggers)

\* Machine::fire(trigger) and Machine::fire<Args...>(trigger, args...), n the
\* nested calls still looked into; `action->call()` runs the inner fire of an
\* action that calls fire, whole, before the outer one returns
RECURSIVE fireNested(_, _, _)
fireNested(trigger, payload, n) ==
    LET look == getActionFor(fState, trigger, SigOf(payload))
    IN  IF fState \notin fStates
        THEN FireResult(fState, << >>,
                        FireCall(trigger, payload, NotLooked, None, None, "abort"))
        ELSE IF Failed(look.found)
        THEN FireResult(fState, << >>,
                        FireCall(trigger, payload, look, None, None, look.found))
        ELSE IF look.found = "null"
        THEN FireResult(fState, unhandled(fState, << >>),
                        FireCall(trigger, payload, look, None, None,
                                 IF fOnUnhandledTrigger THEN "returned" ELSE "abort"))
        ELSE IF ~hasDestination(look.action)
        THEN LET called == callAction(look.action, look.owner, << >>, fState)
             IN  IF ~Firing(look.action)
                 THEN FireResult(fState, called,
                                 FireCall(trigger, payload, look, None, None, "returned"))
                 ELSE IF n = 0
                 THEN FireResult(fState, called,
                                 FireCall(trigger, payload, look, None, None, "diverge"))
                 ELSE LET inner == fireNested(look.action.body, None, n - 1)
                      IN  FireResult(inner.cur, called \o inner.log,
                                     FireCall(trigger, payload, look, None, None,
                                              inner.call.end))
        ELSE fireTransition(trigger, payload, look)

fire(trigger, payload) == fireNested(trigger, payload, MaxNest)

Fire(trigger, payload) ==
    /\ alive
    /\ LET r == fire(trigger, payload)
       IN  /\ fState' = r.cur
           /\ sequence' = r.log
           /\ call' = r.call
           /\ alive' = (r.call.end = "returned")
    /\ UNCHANGED config

\* Machine::canFire: its body calls getDestinationFor, which neither Machine
\* nor any header declares; the member template is compiled only when
\* called, and a program that calls it is rejected by the compiler
canFire(trigger) == "ill-formed"

\* A call of Machine::canFire(trigger) by the program: there is no such
\* program to run
CanFire(trigger) ==
    /\ alive
    /\ call' = [outcome |-> "canFire", source |-> fState, trigger |-> trigger,
                result |-> canFire(trigger)]
    /\ alive' = (canFire(trigger) \in {"true", "false"})
    /\ sequence' = << >>
    /\ UNCHANGED <<fState, config>>

\* Machine::isInState: "true", "false", "abort" (the assert of
\* getMachineState) or "diverge" (the while loop on a cycle)
RECURSIVE isInStateWalk(_, _, _)
isInStateWalk(currentState, state, n) ==
    IF fParentState[currentState] = None THEN "false"
    ELSE IF fParentState[currentState] \notin fStates THEN "abort"
    ELSE IF fParentState[currentState] = state THEN "true"
    ELSE IF n = 0 THEN "diverge"
    ELSE isInStateWalk(fParentState[currentState], state, n - 1)

\* Mutant of isInState: the current state only, not its ancestors
isInStateCurrentOnly(state) ==
    IF fState = state THEN "true" ELSE "false"

isInState(state) ==
    IF fState = state THEN "true"
    ELSE IF fState \notin fStates THEN "abort"
    ELSE isInStateWalk(fState, state, MaxWalk)

\* Mutant of IsInState: a query that is answered true makes `state` current
IsInStateMoving(state) ==
    /\ alive
    /\ call' = [outcome |-> "isInState", source |-> fState, state |-> state,
                result |-> isInState(state)]
    /\ alive' = (isInState(state) \in {"true", "false"})
    /\ sequence' = << >>
    /\ fState' = IF isInState(state) = "true" THEN state ELSE fState
    /\ UNCHANGED config

\* A call of Machine::isInState(state) by the program
IsInState(state) ==
    /\ alive
    /\ call' = [outcome |-> "isInState", source |-> fState, state |-> state,
                result |-> isInState(state)]
    /\ alive' = (isInState(state) \in {"true", "false"})
    /\ sequence' = << >>
    /\ UNCHANGED <<fState, config>>

----------------------------------------------------------------------------
(* The builder: Machine::configure(s) followed by one MachineState call *)

Built == /\ sequence' = << >>
         /\ call' = NoCall
         /\ UNCHANGED fState

\* A failed assert of the builder call op(state) on configure(s)
Rejected(op, s, state) ==
    /\ alive' = FALSE
    /\ sequence' = << >>
    /\ call' = [outcome |-> "rejected", op |-> op, source |-> s, state |-> state]
    /\ UNCHANGED <<fState, fParentState, fInitialState, fTriggers, fOnEntry,
                   fOnExit, fOnUnhandledTrigger, fOnTransitioned,
                   fOnEntryWithParameters>>

\* Machine::configure / getCachedMachineState
Configure(s) ==
    /\ alive
    /\ fStates' = fStates \cup {s}
    /\ Built
    /\ UNCHANGED <<fParentState, fInitialState, fTriggers, fOnEntry, fOnExit,
                   fOnUnhandledTrigger, fOnTransitioned, alive,
                   fOnEntryWithParameters>>

\* fTriggers.insert({trigger, action}) on configure(s)
Insert(s, trigger, a) ==
    /\ fStates' = fStates \cup {s}
    /\ fTriggers' = [fTriggers EXCEPT ![s][trigger] = Append(@, a)]
    /\ Built
    /\ UNCHANGED <<fParentState, fInitialState, fOnEntry, fOnExit,
                   fOnUnhandledTrigger, fOnTransitioned, alive,
                   fOnEntryWithParameters>>

\* Mutant of PermitIf: without the assert on the destination
PermitIfAnyState(s, trigger, sig, state, guard) ==
    /\ alive
    /\ Insert(s, trigger, StaticAction(sig, state, guard))

\* MachineState::permit / permitIf (guard "none": permit)
PermitIf(s, trigger, sig, state, guard) ==
    /\ alive
    /\ IF state = s
       THEN fStates' = fStates \cup {s} /\ Rejected("permit", s, state)
       ELSE Insert(s, trigger, StaticAction(sig, state, guard))

\* MachineState::permitReentry / permitReentryIf
PermitReentryIf(s, trigger, sig, guard) ==
    /\ alive
    /\ Insert(s, trigger, StaticAction(sig, s, guard))

\* MachineState::permitDynamic / permitDynamicIf
PermitDynamicIf(s, trigger, sig, selector, guard) ==
    /\ alive
    /\ Insert(s, trigger, DynamicAction(sig, selector, guard))

\* MachineState::ignore / ignoreIf
IgnoreIf(s, trigger, sig, guard) ==
    /\ alive
    /\ Insert(s, trigger, IgnoreAction(sig, guard))

\* MachineState::internalTransition / internalTransitionIf
InternalTransitionIf(s, trigger, sig, guard) ==
    /\ alive
    /\ Insert(s, trigger, InternalAction(sig, guard))

\* MachineState::internalTransition with an action that calls fire(inner) on
\* the machine it is registered with
InternalTransitionFiring(s, trigger, sig, inner) ==
    /\ alive
    /\ Insert(s, trigger, InternalActionFiring(sig, "none", inner))

\* Mutant of SubstateOf: without the assert on the parent being unset
SubstateOfAgain(s, state) ==
    /\ alive
    /\ fStates' = fStates \cup {s}
    /\ IF isDescendantOf(s, state) # "false"
       THEN Rejected("substateOf", s, state)
       ELSE /\ fParentState' = [fParentState EXCEPT ![s] = state]
            /\ Built
            /\ UNCHANGED <<fInitialState, fTriggers, fOnEntry, fOnExit,
                           fOnUnhandledTrigger, fOnTransitioned, alive,
                           fOnEntryWithParameters>>

\* MachineState::substateOf
SubstateOf(s, state) ==
    /\ alive
    /\ fStates' = fStates \cup {s}
    /\ IF fParentState[s] # None \/ isDescendantOf(s, state) # "false"
       THEN Rejected("substateOf", s, state)
       ELSE /\ fParentState' = [fParentState EXCEPT ![s] = state]
            /\ Built
            /\ UNCHANGED <<fInitialState, fTriggers, fOnEntry, fOnExit,
                           fOnUnhandledTrigger, fOnTransitioned, alive,
                           fOnEntryWithParameters>>

\* Mutant of InitialTransition: the initial state must be a substate of s
InitialTransitionChecked(s, state) ==
    /\ alive
    /\ fStates' = fStates \cup {s}
    /\ IF s = state \/ fInitialState[s] # None \/ fParentState[state] # s
       THEN Rejected("initialTransition", s, state)
       ELSE /\ fInitialState' = [fInitialState EXCEPT ![s] = state]
            /\ Built
            /\ UNCHANGED <<fParentState, fTriggers, fOnEntry, fOnExit,
                           fOnUnhandledTrigger, fOnTransitioned, alive,
                           fOnEntryWithParameters>>

\* Mutant of InitialTransition: a machine that is in s moves to its initial
\* state at once
InitialTransitionCascading(s, state) ==
    /\ alive
    /\ fStates' = fStates \cup {s}
    /\ IF s = state \/ fInitialState[s] # None
       THEN Rejected("initialTransition", s, state)
       ELSE /\ fInitialState' = [fInitialState EXCEPT ![s] = state]
            /\ fState' = IF fState = s THEN state ELSE fState
            /\ sequence' = << >>
            /\ call' = NoCall
            /\ UNCHANGED <<fParentState, fTriggers, fOnEntry, fOnExit,
                           fOnUnhandledTrigger, fOnTransitioned, alive,
                           fOnEntryWithParameters>>

\* MachineState::initialTransition
InitialTransition(s, state) ==
    /\ alive
    /\ fStates' = fStates \cup {s}
    /\ IF s = state \/ fInitialState[s] # None
       THEN Rejected("initialTransition", s, state)
       ELSE /\ fInitialState' = [fInitialState EXCEPT ![s] = state]
            /\ Built
            /\ UNCHANGED <<fParentState, fTriggers, fOnEntry, fOnExit,
                           fOnUnhandledTrigger, fOnTransitioned, alive,
                           fOnEntryWithParameters>>

\* MachineState::onEntry
OnEntry(s) ==
    /\ alive
    /\ fStates' = fStates \cup {s}
    /\ fOnEntry' = fOnEntry \cup {s}
    /\ Built
    /\ UNCHANGED <<fParentState, fInitialState, fTriggers, fOnExit,
                   fOnUnhandledTrigger, fOnTransitioned, alive,
                   fOnEntryWithParameters>>

\* MachineState::onExit
OnExit(s) ==
    /\ alive
    /\ fStates' = fStates \cup {s}
    /\ fOnExit' = fOnExit \cup {s}
    /\ Built
    /\ UNCHANGED <<fParentState, fInitialState, fTriggers, fOnEntry,
                   fOnUnhandledTrigger, fOnTransitioned, alive,
                   fOnEntryWithParameters>>

\* MachineState::onEntryFrom<Args...>
OnEntryFrom(s, trigger, sig) ==
    /\ alive
    /\ fStates' = fStates \cup {s}
    /\ fOnEntryWithParameters' =
          [fOnEntryWithParameters EXCEPT ![s] = @ \cup {<<trigger, sig>>}]
    /\ Built
    /\ UNCHANGED <<fParentState, fInitialState, fTriggers, fOnEntry, fOnExit,
                   fOnUnhandledTrigger, fOnTransitioned, alive>>

\* Machine::onUnhandledTrigger
OnUnhandledTrigger ==
    /\ alive
    /\ fOnUnhandledTrigger' = TRUE
    /\ Built
    /\ UNCHANGED <<fStates, fParentState, fInitialState, fTriggers, fOnEntry,
                   fOnExit, fOnTransitioned, alive,
                   fOnEntryWithParameters>>

\* Machine::onTransitioned
OnTransitioned ==
    /\ alive
    /\ fOnTransitioned' = TRUE
    /\ Built
    /\ UNCHANGED <<fStates, fParentState, fInitialState, fTriggers, fOnEntry,
                   fOnExit, fOnUnhandledTrigger, alive,
                   fOnEntryWithParameters>>

\* Machine::Machine(initialState)
Machine(initialState) ==
    /\ fState = initialState
    /\ fStates = {}
    /\ fParentState = [s \in States |-> None]
    /\ fInitialState = [s \in States |-> None]
    /\ fTriggers = [s \in States |-> [t \in Triggers |-> << >>]]
    /\ fOnEntry = {}
    /\ fOnExit = {}
    /\ fOnEntryWithParameters = [s \in States |-> {}]
    /\ fOnUnhandledTrigger = FALSE
    /\ fOnTransitioned = FALSE
    /\ alive = TRUE
    /\ sequence = << >>
    /\ call = NoCall

----------------------------------------------------------------------------
(* The hierarchy, stated without the code's walks *)

RECURSIVE Up(_, _)
Up(S, n) ==
    IF n = 0 THEN S
    ELSE Up(S \cup ({fParentState[x] : x \in S} \ {None}), n - 1)

\* s and the states reached from s by parent links
AncestorsOrSelf(s) == Up({s}, Cardinality(States))

Ancestors(s) ==
    IF fParentState[s] = None THEN {} ELSE AncestorsOrSelf(fParentState[s])

\* The parent relation has no cycle
Forest == \A s \in States : s \notin Ancestors(s)

\* s, its parent, ... up to its root (of a forest)
RECURSIVE ChainFrom(_, _)
ChainFrom(s, n) ==
    IF s = None \/ n = 0 THEN << >>
    ELSE <<s>> \o ChainFrom(fParentState[s], n - 1)

Chain(s) == ChainFrom(s, Cardinality(States))

Reverse(q) == [i \in 1..Len(q) |-> q[Len(q) + 1 - i]]

\* The states whose callback of kind k the last fire invoked, in order
Invoked(k) ==
    LET es == SelectSeq(sequence, LAMBDA e : e.k = k)
    IN  [i \in 1..Len(es) |-> es[i].s]

Exited == Invoked("exit")
Entered == Invoked("entry")

Count(q, x) == Cardinality({i \in 1..Len(q) : q[i] = x})

\* The last call was a fire that resolved to a transition and ran its exits
Transition == call.outcome = "transition" /\ call.top # None

\* The last call was a fire
Called == call.outcome \in {"unhandled", "nodest", "transition"}

\* ... and returned
Returned == Called /\ call.end = "returned"

\* The entries of x's table for trigger t whose guard is absent or true
Passing(x, t) ==
    {i \in 1..Len(fTriggers[x][t]) : fTriggers[x][t][i].guard # "false"}

First(S) == CHOOSE i \in S : \A j \in S : i <= j

\* The states of s's parent chain that hold a guard-passing entry for t,
\* nearest first
Holders(s, t) == SelectSeq(Chain(s), LAMBDA x : Passing(x, t) # {})

\* The entry a fire of t in s is to use: the first guard-passing entry of the
\* nearest holder
Entry(s, t) == fTriggers[Holders(s, t)[1]][t][First(Passing(Holders(s, t)[1], t))]

----------------------------------------------------------------------------
(* Specifications *)

\* configure(s).onEntry(...).onExit(...): how every test of main.cpp starts
\* the configuration of a state, its callbacks recording into `sequence`
Observe(s) ==
    /\ alive
    /\ fStates' = fStates \cup {s}
    /\ fOnEntry' = fOnEntry \cup {s}
    /\ fOnExit' = fOnExit \cup {s}
    /\ Built
    /\ UNCHANGED <<fParentState, fInitialState, fTriggers,
                   fOnUnhandledTrigger, fOnTransitioned, alive,
                   fOnEntryWithParameters>>

RECURSIVE CountActions(_, _)
CountActions(S, t) ==
    IF S = {} THEN 0
    ELSE LET s == CHOOSE x \in S : TRUE
         IN  Len(fTriggers[s][t]) + CountActions(S \ {s}, t)

NumActions(t) == CountActions(States, t)

\* Bound of the hierarchy specification: the entries of the trigger tables
MaxActions == 1

\* The state names are interchangeable: the hierarchy is explored from one
\* initial state
Init == Machine("A")

\* Configuration precedes the first fire
Configuring == call = NoCall

\* The hierarchy: every forest over States in which any state may have one of
\* its substates as initial state, built by accepted builder calls once every
\* state is observed, with static and dynamic transitions on one trigger (the
\* calls the builder rejects, the cyclic parent relations and foreign initial
\* states it accepts, and states without a MachineState are explored by the
\* other specifications)
Next ==
    \/ /\ Configuring
       /\ \E s \in States \ fStates : Observe(s)
    \/ /\ Configuring /\ fStates = States
       /\ \E s \in States, p \in States :
             /\ fParentState[s] = None
             /\ s \notin AncestorsOrSelf(p)
             /\ SubstateOf(s, p)
    \/ /\ Configuring /\ fStates = States
       /\ \E s \in States : \E c \in States \ {s} :
             /\ fInitialState[s] = None
             /\ fParentState[c] = s
             /\ InitialTransition(s, c)
    \/ /\ Configuring /\ fStates = States
       /\ NumActions("X") < MaxActions
       /\ \E s \in States : \E d \in States \ {s} :
             PermitIf(s, "X", NoArgs, d, "none")
    \/ /\ Configuring /\ fStates = States
       /\ NumActions("X") < MaxActions
       /\ \E s \in States : PermitReentryIf(s, "X", NoArgs, "none")
    \/ /\ Configuring /\ fStates = States
       /\ NumActions("X") < MaxActions
       /\ \E s \in States, d \in States :
             PermitDynamicIf(s, "X", NoArgs, ConstSelector(d), "none")
    \/ /\ fStates = States
       /\ Fire("X", None)

Spec == Init /\ [][Next]_vars

\* The results of a predicate of permitIf, ignoreIf, ...: "none" is the
\* unconditional action
Guards == {"none", "true", "false"}

ResolveStates == {"A", "B", "C"}

\* Bound of the resolution specification: the entries of the trigger tables
MaxEntries == 2

\* Trigger resolution: every forest over ResolveStates, built by accepted
\* builder calls on observed states (a parent or a destination may have no
\* MachineState), tables of up to MaxEntries entries of every kind and guard
\* on one trigger, with or without the two observers
NextResolve ==
    \/ /\ Configuring
       /\ \E s \in ResolveStates \ fStates : Observe(s)
    \/ /\ Configuring
       /\ \E s \in fStates, p \in ResolveStates :
             /\ fParentState[s] = None
             /\ s \notin AncestorsOrSelf(p)
             /\ SubstateOf(s, p)
    \/ /\ Configuring
       /\ NumActions("X") < MaxEntries
       /\ \E s \in fStates, g \in Guards : \E d \in ResolveStates \ {s} :
             PermitIf(s, "X", NoArgs, d, g)
    \/ /\ Configuring
       /\ NumActions("X") < MaxEntries
       /\ \E s \in fStates, g \in Guards : PermitReentryIf(s, "X", NoArgs, g)
    \/ /\ Configuring
       /\ NumActions("X") < MaxEntries
       /\ \E s \in fStates, g \in Guards :
             PermitDynamicIf(s, "X", NoArgs, ConstSelector("B"), g)
    \/ /\ Configuring
       /\ NumActions("X") < MaxEntries
       /\ \E s \in fStates, g \in Guards : IgnoreIf(s, "X", NoArgs, g)
    \/ /\ Configuring
       /\ NumActions("X") < MaxEntries
       /\ \E s \in fStates, g \in Guards : InternalTransitionIf(s, "X", NoArgs, g)
    \/ /\ Configuring
       /\ ~fOnUnhandledTrigger
       /\ OnUnhandledTrigger
    \/ /\ Configuring
       /\ ~fOnTransitioned
       /\ OnTransitioned
    \/ Fire("X", None)

SpecResolve == Init /\ [][NextResolve]_vars

\* Any builder call on up to three states, the rejected ones included, with
\* fire and isInState called on whatever has been configured
BuildStates == {"A", "B", "C"}

\* Entries of trigger X over all states
MaxPermits == 1

NextBuild ==
    \/ /\ Configuring
       /\ \E s \in BuildStates \ fStates : alive /\ Configure(s)
    \/ /\ Configuring
       /\ \E s, p \in BuildStates : SubstateOf(s, p)
    \/ /\ Configuring
       /\ \E s, c \in BuildStates : InitialTransition(s, c)
    \/ /\ Configuring
       /\ NumActions("X") < MaxPermits
       /\ \E s, d \in BuildStates : \E g \in {"none", "true"} :
             PermitIf(s, "X", NoArgs, d, g)
    \/ Fire("X", None)
    \/ \E x \in BuildStates : IsInState(x)

SpecBuild == Init /\ [][NextBuild]_vars

\* The round trip of examples/editor.cpp on every forest of observed states
\* with initial states: A permits X to some state, which permits Y back to A
NextTrip ==
    \/ /\ Configuring
       /\ \E s \in States \ fStates : Observe(s)
    \/ /\ Configuring /\ fStates = States
       /\ \E s \in States, p \in States :
             /\ fParentState[s] = None
             /\ s \notin AncestorsOrSelf(p)
             /\ SubstateOf(s, p)
    \/ /\ Configuring /\ fStates = States
       /\ \E s \in States : \E c \in States \ {s} :
             /\ fInitialState[s] = None
             /\ fParentState[c] = s
             /\ InitialTransition(s, c)
    \/ /\ Configuring /\ fStates = States
       /\ fTriggers["A"]["X"] = << >>
       /\ \E b \in States \ {"A"} : PermitIf("A", "X", NoArgs, b, "none")
    \/ /\ Configuring
       /\ \E b \in States \ {"A"} :
             /\ fTriggers["A"]["X"] = <<StaticAction(NoArgs, b, "none")>>
             /\ fTriggers[b]["Y"] = << >>
             /\ PermitIf(b, "Y", NoArgs, "A", "none")
    \/ /\ fStates = States
       /\ Fire("X", None)
    \/ /\ fStates = States
       /\ Fire("Y", None)

SpecTrip == Init /\ [][NextTrip]_vars

\* Fires with and without an int payload on forests of three observed
\* states: static and dynamic entries registered with either signature, and
\* entry hooks registered with onEntryFrom<int>, with or without the
\* transitioned observer
PayloadStates == {"A", "B", "C"}

\* Entries of trigger X over all states
MaxTyped == 2

NextPayload ==
    \/ /\ Configuring
       /\ \E s \in PayloadStates \ fStates : Observe(s)
    \/ /\ Configuring /\ fStates = PayloadStates
       /\ \E s \in PayloadStates, p \in PayloadStates :
             /\ fParentState[s] = None
             /\ s \notin AncestorsOrSelf(p)
             /\ SubstateOf(s, p)
    \/ /\ Configuring /\ fStates = PayloadStates
       /\ NumActions("X") < MaxTyped
       /\ \E s \in PayloadStates, sig \in Signatures :
             \E d \in PayloadStates \ {s} : PermitIf(s, "X", sig, d, "none")
    \/ /\ Configuring /\ fStates = PayloadStates
       /\ NumActions("X") < MaxTyped
       /\ \E s \in PayloadStates :
             \/ PermitDynamicIf(s, "X", NoArgs, ConstSelector("B"), "none")
             \/ PermitDynamicIf(s, "X", IntArgs, ByPayload, "none")
    \/ /\ Configuring /\ fStates = PayloadStates
       /\ \E s \in PayloadStates :
             /\ fOnEntryWithParameters[s] = {}
             /\ OnEntryFrom(s, "X", IntArgs)
    \/ /\ Configuring /\ fStates = PayloadStates
       /\ ~fOnTransitioned
       /\ OnTransitioned
    \/ /\ fStates = PayloadStates
       /\ \E payload \in Payloads : Fire("X", payload)

SpecPayload == Init /\ [][NextPayload]_vars

\* The round trip on every forest of observed states with initial states,
\* with or without the two observers, A ignoring Y or handling it by an
\* internal transition
NextOrder ==
    \/ /\ Configuring
       /\ \E s \in States \ fStates : Observe(s)
    \/ /\ Configuring /\ fStates = States
       /\ \E s \in States, p \in States :
             /\ fParentState[s] = None
             /\ s \notin AncestorsOrSelf(p)
             /\ SubstateOf(s, p)
    \/ /\ Configuring /\ fStates = States
       /\ \E s \in States : \E c \in States \ {s} :
             /\ fInitialState[s] = None
             /\ fParentState[c] = s
             /\ InitialTransition(s, c)
    \/ /\ Configuring /\ fStates = States
       /\ fTriggers["A"]["X"] = << >>
       /\ \E b \in States \ {"A"} : PermitIf("A", "X", NoArgs, b, "none")
    \/ /\ Configuring
       /\ \E b \in States \ {"A"} :
             /\ fTriggers["A"]["X"] = <<StaticAction(NoArgs, b, "none")>>
             /\ fTriggers[b]["Y"] = << >>
             /\ PermitIf(b, "Y", NoArgs, "A", "none")
    \/ /\ Configuring /\ fStates = States
       /\ fTriggers["A"]["Y"] = << >>
       /\ IgnoreIf("A", "Y", NoArgs, "none")
    \/ /\ Configuring /\ fStates = States
       /\ fTriggers["A"]["Y"] = << >>
       /\ InternalTransitionIf("A", "Y", NoArgs, "none")
    \/ /\ Configuring /\ fStates = States
       /\ ~fOnUnhandledTrigger
       /\ OnUnhandledTrigger
    \/ /\ Configuring /\ fStates = States
       /\ ~fOnTransitioned
       /\ OnTransitioned
    \/ /\ fStates = States
       /\ Fire("X", None)
    \/ /\ fStates = States
       /\ Fire("Y", None)

SpecOrder == Init /\ [][NextOrder]_vars

\* Every operation of Machine and of MachineState, in any order, on two
\* states: the builder calls before and after fires, the hooks and both
\* observers, tables of up to MaxInserts entries of every kind over the two
\* triggers, one of them an internal transition whose action fires the other
\* trigger, and the calls of fire, isInState and canFire
CallStates == {"A", "B"}

\* Entries of both triggers over all states
MaxInserts == 2

NextCalls ==
    \/ \E s \in CallStates \ fStates : Configure(s)
    \/ \E s, p \in CallStates :
          /\ fParentState[s] = None
          /\ SubstateOf(s, p)
    \/ \E s, c \in CallStates :
          /\ fInitialState[s] = None
          /\ InitialTransition(s, c)
    \/ /\ "B" \notin fOnEntry
       /\ OnEntry("B")
    \/ /\ "A" \notin fOnExit
       /\ OnExit("A")
    \/ /\ fOnEntryWithParameters["B"] = {}
       /\ OnEntryFrom("B", "Y", IntArgs)
    \/ /\ ~fOnUnhandledTrigger
       /\ OnUnhandledTrigger
    \/ /\ ~fOnTransitioned
       /\ OnTransitioned
    \/ /\ NumActions("X") + NumActions("Y") < MaxInserts
       /\ \E s \in CallStates : \E d \in CallStates \ {s} :
             PermitIf(s, "Y", NoArgs, d, "none")
    \/ /\ NumActions("X") + NumActions("Y") < MaxInserts
       /\ PermitReentryIf("A", "Y", NoArgs, "none")
    \/ /\ NumActions("X") + NumActions("Y") < MaxInserts
       /\ PermitDynamicIf("A", "Y", NoArgs, ConstSelector("B"), "none")
    \/ /\ NumActions("X") + NumActions("Y") < MaxInserts
       /\ IgnoreIf("A", "Y", NoArgs, "none")
    \/ /\ NumActions("X") + NumActions("Y") < MaxInserts
       /\ InternalTransitionIf("A", "X", NoArgs, "none")
    \/ /\ NumActions("X") + NumActions("Y") < MaxInserts
       /\ \E inner \in Triggers :
             InternalTransitionFiring("A", "X", NoArgs, inner)
    \/ \E t \in Triggers : Fire(t, None)
    \/ \E x \in CallStates : IsInState(x)
    \/ \E t \in Triggers : CanFire(t)

SpecCalls == Init /\ [][NextCalls]_vars

----------------------------------------------------------------------------
(* Claims *)

\* C1: a transition from s to d, d not s and not a descendant of s, invokes
\* the exit hooks of exactly the states on s's parent chain below the nearest
\* common ancestor of s and d (the whole chain when there is none), each
\* once, innermost first; a transition to a strict descendant of s invokes
\* no exit hook.
C1_ExitSet ==
    (Transition /\ Forest /\ call.dest # call.source) =>
        LET s == call.source
            d == call.dest
            leaving == SelectSeq(Chain(s), LAMBDA x : x \notin AncestorsOrSelf(d))
        IN  IF s \in Ancestors(d)
            THEN Exited = << >>
            ELSE Exited = SelectSeq(leaving, LAMBDA x : x \in fOnExit)

\* C1 witness: two states exited below a common ancestor, through an entry
\* of an ancestor's table (D < C < A > B, C permits X to B, fired in D)
C1_Witness ==
    /\ Transition /\ Returned
    /\ Len(Exited) = 2
    /\ call.owner # call.source
    /\ AncestorsOrSelf(call.source) \cap AncestorsOrSelf(call.dest) # {}

\* C2: in a forest without initial states, a transition from s to d, d
\* neither s nor an ancestor of s, invokes the entry hooks of exactly d and
\* the ancestors of d that are not s or an ancestor of s, each once,
\* outermost first, and all of them after every exit hook.
C2_EntrySet ==
    (/\ Transition /\ Returned /\ Forest
     /\ \A x \in States : fInitialState[x] = None
     /\ call.dest \notin AncestorsOrSelf(call.source)) =>
        LET s == call.source
            d == call.dest
            entering == SelectSeq(Chain(d), LAMBDA x : x \notin AncestorsOrSelf(s))
        IN  /\ Entered = SelectSeq(Reverse(entering), LAMBDA x : x \in fOnEntry)
            /\ \A i, j \in 1..Len(sequence) :
                  (sequence[i].k = "exit" /\ sequence[j].k = "entry") => i < j

\* C2 witness: an exit, then two entries, the ancestor first (B and C < D
\* under A, B permits X to D: <B >C >D)
C2_Witness ==
    /\ Transition /\ Returned
    /\ \A x \in States : fInitialState[x] = None
    /\ Len(Exited) = 1
    /\ Len(Entered) = 2
    /\ Entered[2] = call.dest
    /\ fParentState[call.dest] = Entered[1]

\* C3: after fire returns from a transition with destination d, isInState(d)
\* is true.
C3_InDestination ==
    (Transition /\ Returned /\ Forest) => isInState(call.dest) = "true"

\* The initial states followed from s: s, its initial state, ...
RECURSIVE InitialChainFrom(_, _)
InitialChainFrom(s, n) ==
    IF s = None \/ n = 0 THEN << >>
    ELSE <<s>> \o InitialChainFrom(fInitialState[s], n - 1)

InitialChain(s) == InitialChainFrom(s, Cardinality(States))

Suffix(q, n) == SubSeq(q, Len(q) - n + 1, Len(q))

\* C4: when the destination d of a transition has an initial state, fire
\* invokes the entry hooks of d and of the states of its initial chain in
\* that order, each exactly once, and the last of them is the current state,
\* so that isInState is true of each.
C4_Cascade ==
    (Transition /\ Returned /\ Forest /\ fInitialState[call.dest] # None) =>
        LET chain == InitialChain(call.dest)
        IN  /\ Len(Entered) >= Len(chain)
            /\ Suffix(Entered, Len(chain)) = chain
            /\ \A i \in 1..Len(chain) : Count(Entered, chain[i]) = 1
            /\ fState = chain[Len(chain)]
            /\ \A i \in 1..Len(chain) : isInState(chain[i]) = "true"

\* C5: in a fire from s to d # s, no state that is an ancestor-or-self of
\* both s and d has its exit hook or its entry hook invoked.
C5_CommonAncestorUntouched ==
    (Transition /\ Forest /\ call.dest # call.source) =>
        \A x \in AncestorsOrSelf(call.source) \cap AncestorsOrSelf(call.dest) :
            Count(Exited, x) = 0 /\ Count(Entered, x) = 0

\* C6: a transition whose destination is the current state s invokes s's exit
\* hook once, then s's entry hook once, no hook of an ancestor of s, and then
\* the entry hooks of s's initial chain, whose last state becomes the current
\* state.
C6_Reentry ==
    (Transition /\ Forest /\ call.dest = call.source) =>
        LET s == call.source
            chain == InitialChain(s)
        IN  /\ Exited = <<s>>
            /\ Len(sequence) >= 2
            /\ sequence[1].k = "exit" /\ sequence[2].k = "entry"
            /\ Entered[1] = s
            /\ \A x \in Ancestors(s) : Count(Exited, x) = 0 /\ Count(Entered, x) = 0
            /\ Returned =>
                  /\ Entered = chain
                  /\ fState = chain[Len(chain)]
                  /\ \A i \in 1..Len(chain) : isInState(chain[i]) = "true"

\* C6 witness: A.initialTransition(B), B.substateOf(A), a transition on X
\* from A to A: <A >A >B, and the machine is in B
C6_Witness ==
    /\ Transition /\ Returned
    /\ call.dest = call.source
    /\ fInitialState[call.source] # None
    /\ Exited = <<call.source>>
    /\ Entered = <<call.source, fInitialState[call.source]>>
    /\ fState = fInitialState[call.source]
    /\ isInState(fState) = "true"

\* C7: a fire in s uses the first guard-passing entry of the nearest state
\* on s's parent chain (s first) that has one: a state whose entries all fail
\* their guards is passed over for its parent, and a passing entry of a
\* nearer state (an ignore included) shadows the entries of its ancestors.
C7_Fallback ==
    (Called /\ Forest) =>
        LET s == call.source
            t == call.trigger
        IN  IF Holders(s, t) = << >>
            THEN call.found # "found"
            ELSE Entry(s, t).sig = SigOf(call.payload) =>
                    /\ call.found = "found"
                    /\ call.owner = Holders(s, t)[1]
                    /\ call.action = Entry(s, t)
                    /\ Entry(s, t).kind \in {"ignore", "internal"} =>
                          call.outcome = "nodest" /\ fState = s

\* C7 witness: the current state has an entry, its guard fails, and the
\* entry of a strict ancestor is used
C7_Witness ==
    /\ Called /\ call.found = "found"
    /\ call.owner \in Ancestors(call.source)
    /\ fTriggers[call.source][call.trigger] # << >>
    /\ Passing(call.source, call.trigger) = {}
    /\ call.end = "returned"

\* C8: among the entries of one state for one trigger, the entry used is the
\* first in insertion order whose guard is absent or true: every entry
\* inserted before it fails its guard, whatever the kinds of the entries.
C8_GuardOrder ==
    (Called /\ call.found = "found") =>
        LET tbl == fTriggers[call.owner][call.trigger]
        IN  \E i \in 1..Len(tbl) :
                /\ tbl[i] = call.action
                /\ tbl[i].guard # "false"
                /\ \A j \in 1..(i - 1) : tbl[j].guard = "false"

\* C8 witness: two entries of different kinds pass their guards, and the one
\* inserted first is used
C8_Witness ==
    /\ Called /\ call.found = "found"
    /\ LET tbl == fTriggers[call.owner][call.trigger]
       IN  /\ Len(tbl) = 2
           /\ tbl[1].guard = "true" /\ tbl[2].guard # "false"
           /\ tbl[1].kind # tbl[2].kind
           /\ call.action = tbl[1]

\* What C9 says of a fire that no entry matches: the current state is the
\* same, no hook, action or transitioned observer is invoked, and either the
\* unhandled-trigger observer is called once with the current state and fire
\* returns, or there is no observer and fire ends in a fatal error.
UnhandledOutcome ==
    /\ fState = call.source
    /\ IF fOnUnhandledTrigger
       THEN /\ sequence = <<Event("unhandled", call.source, None, call.source)>>
            /\ call.end = "returned"
            /\ alive
       ELSE /\ sequence = << >>
            /\ call.end = "abort"
            /\ ~alive

NoMatch == Called /\ Holders(call.source, call.trigger) = << >>

\* C9 as stated: whenever no entry matches at the current state or any
\* ancestor, fire has the unhandled outcome.
C9_AnyState == NoMatch => UnhandledOutcome

\* C9: in a forest where the current state and each of its ancestors has
\* been configured, a fire that no entry matches at the current state or any
\* ancestor has the unhandled outcome.
C9_Unhandled ==
    (NoMatch /\ Forest /\ AncestorsOrSelf(call.source) \subseteq fStates) =>
        UnhandledOutcome

\* C9 witness: both observers registered, a substate whose only entry fails
\* its guard, nothing at its parent: the unhandled observer alone is called
C9_Witness ==
    /\ NoMatch
    /\ fOnUnhandledTrigger /\ fOnTransitioned
    /\ fParentState[call.source] # None
    /\ fTriggers[call.source][call.trigger] # << >>
    /\ sequence = <<Event("unhandled", call.source, None, call.source)>>
    /\ call.end = "returned"

\* C10: a fire that resolves to an ignore entry (ignore, or ignoreIf whose
\* guard is true) leaves the current state as it was and invokes no entry
\* hook, no exit hook and no transitioned observer, at every such fire, also
\* when an ancestor permits a transition on the same trigger.
C10_Ignore ==
    (/\ Called /\ Forest
     /\ Holders(call.source, call.trigger) # << >>
     /\ Entry(call.source, call.trigger).kind = "ignore") =>
        /\ fState = call.source
        /\ sequence = << >>
        /\ call.end = "returned"
        /\ alive

\* C10 witness: ignoreIf with a true guard in a substate whose parent permits
\* a transition on the same trigger, hooks and transitioned observer
\* registered: the machine stays in the substate and nothing is invoked
C10_Witness ==
    /\ Called /\ call.found = "found"
    /\ call.action.kind = "ignore" /\ call.action.guard = "true"
    /\ call.owner = call.source
    /\ fParentState[call.source] # None
    /\ \E i \in Passing(fParentState[call.source], call.trigger) :
          fTriggers[fParentState[call.source]][call.trigger][i].kind = "static"
    /\ fOnTransitioned
    /\ call.source \in fOnEntry \cap fOnExit
    /\ fState = call.source /\ sequence = << >>

\* C11: a fire that resolves to an internalTransition entry, of the current
\* state or of an ancestor, invokes the entry's action exactly once and
\* nothing else (no entry hook, no exit hook, no transitioned observer), and
\* the current state stays what it was.
C11_Internal ==
    (/\ Called /\ Forest
     /\ Holders(call.source, call.trigger) # << >>
     /\ Entry(call.source, call.trigger).kind = "internal") =>
        /\ fState = call.source
        /\ sequence = <<Event("action", Holders(call.source, call.trigger)[1],
                              None, call.source)>>
        /\ call.end = "returned"
        /\ alive

\* C11 witness: the internal transition of a parent used in its substate,
\* hooks and transitioned observer registered: only the action is invoked
\* and the substate stays current
C11_Witness ==
    /\ Called /\ call.found = "found"
    /\ call.action.kind = "internal"
    /\ call.owner = fParentState[call.source]
    /\ fOnTransitioned
    /\ call.source \in fOnEntry \cap fOnExit
    /\ fState = call.source
    /\ Len(sequence) = 1 /\ sequence[1].k = "action"

\* C12: as long as no builder call was rejected, the parent relation has no
\* cycle.
C12_Forest == alive => Forest

\* What C14 says of a call of isInState(x): it returns true when x is the
\* current state or is reached from it by parent links, false otherwise, and
\* the current state is what it was.
MembershipAnswer ==
    /\ call.result = IF call.state \in AncestorsOrSelf(call.source)
                     THEN "true" ELSE "false"
    /\ fState = call.source

\* C14 as stated: every call of isInState gives the membership answer.
C14_AnyState == call.outcome = "isInState" => MembershipAnswer

\* C14: in a forest where the current state and each of its ancestors has
\* been configured, every call of isInState gives the membership answer.
C14_IsInState ==
    (/\ call.outcome = "isInState"
     /\ Forest
     /\ AncestorsOrSelf(call.source) \subseteq fStates) =>
        MembershipAnswer

\* C14 witness: isInState of the grandparent of the current state is true
C14_Witness ==
    /\ call.outcome = "isInState"
    /\ Forest
    /\ fParentState[call.source] \notin {None, call.state}
    /\ fParentState[fParentState[call.source]] = call.state
    /\ call.result = "true"
    /\ fState = call.source

\* A builder call was rejected and left the configuration as it was
RejectedUntouched ==
    /\ ~alive'
    /\ call'.outcome = "rejected"
    /\ UNCHANGED <<fParentState, fInitialState, fTriggers, fOnEntry, fOnExit,
                   fOnEntryWithParameters>>

\* C18: permit(t, s) and permitIf(t, s, guard) on configure(s), and
\* initialTransition(s) on configure(s), are rejected and add nothing to the
\* configuration.
C18_SelfTarget ==
    [][\A s \in States :
          (\/ \E g \in {"none", "true"} : PermitIf(s, "X", NoArgs, s, g)
           \/ InitialTransition(s, s)) => RejectedUntouched]_vars

\* C18 witness: permit(X, s) on configure(s) was rejected, and s has no entry
C18_Witness ==
    /\ call.outcome = "rejected"
    /\ call.op = "permit"
    /\ call.state = call.source
    /\ fTriggers[call.source]["X"] = << >>
    /\ ~alive

\* C19: a substateOf on a state that has a parent and an initialTransition on
\* a state that has an initial state are rejected, so a parent and an initial
\* state, once set, are never changed.
C19_SetOnce ==
    [][\A s \in States :
          /\ fParentState[s] # None => fParentState'[s] = fParentState[s]
          /\ fInitialState[s] # None => fInitialState'[s] = fInitialState[s]
          /\ \A p \in States :
                (fParentState[s] # None /\ SubstateOf(s, p)) => RejectedUntouched
          /\ \A c \in States :
                (fInitialState[s] # None /\ InitialTransition(s, c)) =>
                    RejectedUntouched]_vars

\* C19 witness: a substateOf naming another parent than the one set was
\* rejected, and the parent is the one set first
C19_Witness ==
    /\ call.outcome = "rejected"
    /\ call.op = "substateOf"
    /\ call.state # call.source
    /\ fParentState[call.source] \notin {None, call.state}
    /\ ~alive

\* C20: a fire that resolves to a transition whose destination was never
\* passed to configure returns with the destination as the current state.
C20_ForwardReference ==
    (call.outcome = "transition" /\ call.dest \notin fStates) =>
        /\ call.end = "returned"
        /\ fState = call.dest
        /\ alive

\* C13: in a forest where A permits X to B and B permits Y to A, a fire of X
\* in A followed by a fire of Y returns with isInState(A) true.
C13_RoundTrip ==
    [][(/\ Forest
        /\ call.outcome = "transition" /\ call.end = "returned"
        /\ call.source = "A" /\ call.trigger = "X"
        /\ call.owner = "A"
        /\ fTriggers[call.dest]["Y"] = <<StaticAction(NoArgs, "A", "none")>>
        /\ Called' /\ call'.trigger = "Y") =>
            /\ call'.end = "returned"
            /\ isInState("A")' = "true"]_vars

\* The entries of x's table for trigger t that pass their guard and are
\* registered with the signature of the payload
Eligible(x, t, payload) ==
    {i \in Passing(x, t) : fTriggers[x][t][i].sig = SigOf(payload)}

\* C15: a fire resolves to the first entry, of the nearest state on the
\* parent chain, that is registered with exactly the signature of the payload
\* (none for a fire without payload); entries of another signature are passed
\* over, in the same table and on the way to the ancestors.
C15_PayloadMatching ==
    (Called /\ Forest /\ AncestorsOrSelf(call.source) \subseteq fStates) =>
        LET t == call.trigger
            holders == SelectSeq(Chain(call.source),
                                 LAMBDA x : Eligible(x, t, call.payload) # {})
        IN  IF holders = << >>
            THEN call.found # "found"
            ELSE /\ call.found = "found"
                 /\ call.owner = holders[1]
                 /\ call.action =
                       fTriggers[holders[1]][t][First(Eligible(holders[1], t, call.payload))]

\* C16: a fire that resolves to a permitDynamic entry has for destination
\* the state its selector returns for the payload, and ends with the same
\* callbacks, current state and outcome as the fire of a permit to that state
\* in its place.
C16_Dynamic ==
    [][(Called' /\ call'.found = "found" /\ call'.action.kind = "dynamic") =>
          LET a == call'.action
              d == a.sel[call'.payload]
              static == fireTransition(call'.trigger, call'.payload,
                                       [found |-> "found", owner |-> call'.owner,
                                        action |-> StaticAction(a.sig, d, a.guard)])
          IN  /\ call'.dest = d
              /\ fState' = static.cur
              /\ sequence' = static.log
              /\ call'.top = static.call.top
              /\ call'.end = static.call.end]_vars

\* C16 witness: the selector of a permitDynamic<int> returns B for payload 1
\* and C for payload 0; fired with 1 from another state, the machine is in B
C16_Witness ==
    /\ Called /\ call.found = "found"
    /\ call.action.kind = "dynamic"
    /\ call.action.sel["0"] # call.action.sel["1"]
    /\ call.payload = "1"
    /\ call.dest = "B" /\ call.source # "B"
    /\ call.end = "returned"
    /\ fState = "B"
    /\ fOnTransitioned
    /\ Len(sequence) >= 3

\* The callbacks of kind entry or entryFrom of the last fire
EntryCalls == SelectSeq(sequence, LAMBDA e : e.k \in {"entry", "entryFrom"})

\* The states a transition from s to d enters, outermost first, when d is
\* not a strict ancestor of s and no state has an initial state
Entering(s, d) ==
    IF d = s THEN <<s>>
    ELSE Reverse(SelectSeq(Chain(d), LAMBDA x : x \notin AncestorsOrSelf(s)))

\* The callback of a state entered by a fire with a payload
EntryCallOf(x, t, payload, cur) ==
    IF <<t, SigOf(payload)>> \in fOnEntryWithParameters[x]
    THEN Event("entryFrom", x, payload, cur)
    ELSE Event("entry", x, None, cur)

\* C17: in a fire with a payload, each state entered that has a hook invokes
\* exactly one: the hook of onEntryFrom for the trigger and the signature of
\* the payload, with the payload, if it has one, its onEntry hook otherwise.
C17_EntryFrom ==
    (/\ Transition /\ Returned /\ Forest
     /\ call.payload # None
     /\ \A x \in States : fInitialState[x] = None
     /\ call.dest \notin Ancestors(call.source)) =>
        LET entered == SelectSeq(Entering(call.source, call.dest),
                                 LAMBDA x : \/ x \in fOnEntry
                                            \/ fOnEntryWithParameters[x] # {})
        IN  EntryCalls = [i \in 1..Len(entered) |->
                             EntryCallOf(entered[i], call.trigger, call.payload,
                                         call.dest)]

\* C17 witness: a fire with payload 1 enters a state with an onEntryFrom<int>
\* hook and a state with its onEntry hook only
C17_Witness ==
    /\ Transition /\ Returned
    /\ call.payload = "1"
    /\ Len(EntryCalls) = 2
    /\ \E i, j \in 1..2 :
          /\ EntryCalls[i].k = "entryFrom" /\ EntryCalls[i].d = "1"
          /\ EntryCalls[j].k = "entry"
          /\ EntryCalls[j].s \in fOnEntry
          /\ EntryCalls[i].s \in fOnEntry

\* C21: a fire called from inside a callback of a fire in progress is
\* rejected: it changes no state and runs no hook.  For the action of an
\* internal transition that calls fire: the outer fire leaves the current
\* state where it was and has invoked the action alone.
C21_ReentrancyGuard ==
    (Called /\ call.outcome = "nodest" /\ Firing(call.action)) =>
        /\ fState = call.source
        /\ sequence = <<Event("action", call.owner, None, call.source)>>

\* The machine constructed in A has been given an initial state of A, one of
\* A's substates, and has not fired yet
StartedWithInitialChild ==
    /\ call = NoCall
    /\ fInitialState["A"] # None
    /\ fParentState[fInitialState["A"]] = "A"

\* C22 as stated: before the first fire the machine started at A has
\* cascaded to A's initial state B, and isInState(B) is true.
C22_StartUpCascade ==
    StartedWithInitialChild =>
        /\ fState = fInitialState["A"]
        /\ isInState(fInitialState["A"]) = "true"

\* C22: a machine started at a state A whose initial state is B has not
\* cascaded at start: before the first fire the current state is A,
\* isInState(A) is true and isInState(B) is false.
C22_NoStartUpCascade ==
    StartedWithInitialChild =>
        /\ fState = "A"
        /\ isInState("A") = "true"
        /\ isInState(fInitialState["A"]) = "false"

\* C22: the configuration of testReentrySubState, ready for its first fire
C22_Witness ==
    /\ StartedWithInitialChild
    /\ fTriggers["A"]["X"] = <<StaticAction(NoArgs, "A", "none")>>
    /\ fState = "A"

\* C23: canFire(t) returns true exactly when trigger resolution for t from
\* the current state finds an action, and false otherwise.
C23_CanFire ==
    call.outcome = "canFire" =>
        call.result = IF getActionFor(fState, call.trigger, NoArgs).found = "found"
                      THEN "true" ELSE "false"

\* C24: the initial-state cascade applies to the destination only.  In a
\* transition from s to d, d neither s nor an ancestor of s, the entry hooks
\* invoked are those of the ancestors of d outside s's parent chain,
\* outermost first, then d's, then those of d's own initial chain, and the
\* current state is the last state of that chain: the initial state of an
\* ancestor entered on the way down is not entered.
C24_TerminalCascadeOnly ==
    (/\ Transition /\ Returned /\ Forest
     /\ call.dest \notin AncestorsOrSelf(call.source)) =>
        LET s == call.source
            d == call.dest
            entering == SelectSeq(Chain(d), LAMBDA x : x \notin AncestorsOrSelf(s))
            cascade == InitialChain(d)
        IN  /\ Entered = SelectSeq(Reverse(entering) \o Tail(cascade),
                                   LAMBDA x : x \in fOnEntry)
            /\ fState = cascade[Len(cascade)]

\* C25: in a single fire on a forest no state has its exit hook invoked more
\* than once and no state has its entry hook invoked more than once.
C25_HooksAtMostOnce ==
    (Called /\ Forest) =>
        \A x \in States : Count(Exited, x) <= 1 /\ Count(Entered, x) <= 1

\* The positions of `sequence` at which the transitioned observer ran
Observed == {i \in 1..Len(sequence) : sequence[i].k = "transitioned"}

\* C26: a fire that makes a transition from s to d runs its exit hooks while
\* the current state is s, sets the current state to d and invokes the
\* transitioned observer once, with s the state that was current and d the
\* resolved destination, and runs its entry hooks after that; the observer
\* is invoked neither for the initial-state cascade nor by a fire that is
\* ignored, internal or unhandled.
C26_Ordering ==
    /\ (Transition /\ fOnTransitioned) =>
          \E i \in 1..Len(sequence) :
             /\ Observed = {i}
             /\ sequence[i] = Event("transitioned", call.source, call.dest, call.dest)
             /\ \A j \in 1..(i - 1) :
                   sequence[j].k = "exit" /\ sequence[j].cur = call.source
             /\ \A j \in (i + 1)..Len(sequence) :
                   sequence[j].k \in {"entry", "entryFrom"}
    /\ (Called /\ call.outcome # "transition") => Observed = {}
    /\ (Called /\ ~fOnTransitioned) => Observed = {}

\* C26 witness: a fire resolved in the table of an ancestor of the current
\* state that ran two exit hooks, the observer, and entry hooks down to the
\* initial state of its destination
C26_Witness ==
    /\ Transition /\ Returned /\ fOnTransitioned
    /\ call.owner # call.source
    /\ Len(Exited) >= 2
    /\ Len(Entered) >= 2
    /\ fState # call.dest
    /\ Observed # {}

\* C27: on a configuration made of builder calls that were all accepted,
\* every call of fire and of isInState ends, by returning or by a fatal
\* error: no walk over the parent chain and no cascade goes on forever.
C27_Termination ==
    /\ Called => call.end # "diverge"
    /\ call.outcome = "isInState" => call.result # "diverge"

\* The destination of the last fire has an initial state that is not
\* configured as its substate
ForeignInitialState ==
    LET c == fInitialState[call.dest]
    IN  c # None /\ (c \notin fStates \/ fParentState[c] # call.dest)

\* C28: initialTransition(c) on a state P without initial state is accepted
\* whatever the parent of c # P is, and a fire that enters P while c is not
\* configured with parent P ends in a failed assert: the cascade is not
\* completed.
C28_CheckedAtTransition ==
    /\ [][\A s, c \in BuildStates :
             (c # s /\ fInitialState[s] = None /\ InitialTransition(s, c)) =>
                 (alive' /\ fInitialState'[s] = c)]_vars
    /\ []((Transition /\ Forest /\ ForeignInitialState) =>
             (call.end = "abort" /\ ~alive))

\* C28 witness: an initial state configured under another parent was
\* accepted, and the fire into its owner failed after making it current
C28_Witness ==
    /\ Transition /\ Forest /\ ForeignInitialState
    /\ fInitialState[call.dest] \in fStates
    /\ fParentState[fInitialState[call.dest]] \notin {None, call.dest}
    /\ fState = fInitialState[call.dest]
    /\ call.end = "abort"

\* C29: the current state is changed by fire only: configure and every
\* builder call, isInState, onUnhandledTrigger and onTransitioned leave it
\* unchanged, and it is always one state, the constructor's argument or one
\* assigned by a fire.
C29_OnlyFire ==
    /\ [][fState' # fState =>
             (Called' /\ call'.outcome \in {"transition", "nodest"})]_vars
    /\ [](fState \in States)

\* C29 witness: a builder call made after a fire has moved the machine out
\* of the constructor's state left it where the fire put it
C29_Witness ==
    /\ call = NoCall
    /\ alive
    /\ fState # "A"

\* C30: when the parent relation has no cycle, isDescendantOf is a partial
\* order on the configured states (reflexive, antisymmetric, transitive),
\* and a.isDescendantOf(b) is true exactly when b is a or lies on a's parent
\* chain, false otherwise.
C30_PartialOrder ==
    Forest =>
        /\ \A a, b \in fStates :
              isDescendantOf(a, b) = IF b \in AncestorsOrSelf(a) THEN "true" ELSE "false"
        /\ \A a \in fStates : isDescendantOf(a, a) = "true"
        /\ \A a, b \in fStates :
              (isDescendantOf(a, b) = "true" /\ isDescendantOf(b, a) = "true") => a = b
        /\ \A a, b, c \in fStates :
              (isDescendantOf(a, b) = "true" /\ isDescendantOf(b, c) = "true") =>
                  isDescendantOf(a, c) = "true"

\* C31: when permitReentry(X) is configured on a state P and X is fired
\* while the current state is a strict descendant of P, the entry being
\* found by the ancestor fallback, P's exit hook and then P's entry hook are
\* invoked.
C31_ReentryThroughAncestor ==
    (/\ Transition /\ Returned /\ Forest
     /\ call.action = StaticAction(NoArgs, call.owner, "none")
     /\ call.owner \in Ancestors(call.source)) =>
        \E i, j \in 1..Len(sequence) :
           /\ i < j
           /\ sequence[i].k = "exit" /\ sequence[i].s = call.owner
           /\ sequence[j].k = "entry" /\ sequence[j].s = call.owner

\* The states that are the current state or one of its ancestors, before and
\* after the last fire
ActiveBefore == AncestorsOrSelf(call.source)
ActiveAfter == AncestorsOrSelf(fState)

\* C32: in a fire on a forest of states with hooks, each exit hook is
\* invoked on a state that was active before the fire, each entry hook on a
\* state that was not active before the fire or was exited earlier in it,
\* and the states active after the fire are those active before it, minus
\* the exited, plus the entered.
C32_ActiveSet ==
    (Called /\ Returned /\ Forest) =>
        /\ \A i \in 1..Len(sequence) :
              sequence[i].k = "exit" => sequence[i].s \in ActiveBefore
        /\ \A j \in 1..Len(sequence) :
              sequence[j].k = "entry" =>
                 \/ sequence[j].s \notin ActiveBefore
                 \/ \E i \in 1..(j - 1) :
                       sequence[i].k = "exit" /\ sequence[i].s = sequence[j].s
        /\ ActiveAfter = (ActiveBefore \ {Exited[i] : i \in 1..Len(Exited)})
                             \cup {Entered[j] : j \in 1..Len(Entered)}

====
